---- MODULE Spec2Model ----
(***************************************************************************)
(* Model of app.py: the Streamlit dashboard that loads "Fundraising        *)
(* Data.xlsx" through load_data and renders a bar + line chart whose line  *)
(* series is chosen in a selectbox.                                        *)
(*                                                                         *)
(* Text is a sequence of one-character strings, so that str.strip,         *)
(* str.replace, str.contains, `in` and pd.to_numeric are computed on the   *)
(* characters.  A cell is a record [t, n, d, s]:                           *)
(*   t = "null"  an empty cell (NaN)                                       *)
(*   t = "none"  the Python object None                                    *)
(*   t = "int"   the integer n                                             *)
(*   t = "float" the decimal n / d, d a power of ten, in lowest form       *)
(*   t = "str"   the text s                                                *)
(***************************************************************************)
EXTENDS Integers, Sequences, FiniteSets, TLC

\* ------------------------------------------------------------------ bounds
\* Most columns of a generated sheet (column-mapping family).
MaxCols == 5
\* Most data rows of a generated sheet (row family).
MaxRows == 2

\* ------------------------------------------------------------------- text
\* the sequence s with every element computed, as a list or array holds it
List(s) == SubSeq(s, 1, Len(s))

Digits == <<"0", "1", "2", "3", "4", "5", "6", "7", "8", "9">>

DigitSet == {Digits[i] : i \in 1..10}

LowerSeq == <<"a", "b", "c", "d", "e", "f", "g", "h", "i", "j", "k", "l", "m",
             "n", "o", "p", "q", "r", "s", "t", "u", "v", "w", "x", "y", "z">>

UpperSeq == <<"A", "B", "C", "D", "E", "F", "G", "H", "I", "J", "K", "L", "M",
             "N", "O", "P", "Q", "R", "S", "T", "U", "V", "W", "X", "Y", "Z">>

Lowers == {LowerSeq[i] : i \in 1..26}

UpperToLower == [c \in {UpperSeq[i] : i \in 1..26} |->
                   LowerSeq[CHOOSE i \in 1..26 : UpperSeq[i] = c]]

\* [A-Za-z]
IsLetter(c) == c \in Lowers \/ c \in DOMAIN UpperToLower

\* str.lower(), one character
LowerChar(c) == IF c \in DOMAIN UpperToLower THEN UpperToLower[c] ELSE c

\* str(c).lower()
Lower(s) == List([i \in 1..Len(s) |-> LowerChar(s[i])])

\* kw in name
Contains(s, kw) ==
    \E i \in 1..(Len(s) - Len(kw) + 1) : SubSeq(s, i, i + Len(kw) - 1) = kw

\* str.startswith
StartsWith(s, p) == Len(s) >= Len(p) /\ SubSeq(s, 1, Len(p)) = p

\* str.strip(): leading and trailing blanks removed
RECURSIVE LStrip(_)
LStrip(s) == IF s # <<>> /\ Head(s) = " " THEN LStrip(Tail(s)) ELSE s

RECURSIVE RStrip(_)
RStrip(s) ==
    IF s # <<>> /\ s[Len(s)] = " " THEN RStrip(SubSeq(s, 1, Len(s) - 1)) ELSE s

Strip(s) == RStrip(LStrip(s))

\* RemoveCurrency with a pattern that leaves the thousands separators in
RemoveDollarOnly(s) == SelectSeq(s, LAMBDA c : c # "$")

\* str.replace(r"[$,]", "", regex=True)
RemoveCurrency(s) == SelectSeq(s, LAMBDA c : c \notin {"$", ","})

\* ------------------------------------------------------------------ cells
Null == [t |-> "null", n |-> 0, d |-> 1, s |-> <<>>]

NoneObj == [t |-> "none", n |-> 0, d |-> 1, s |-> <<>>]

IntCell(k) == [t |-> "int", n |-> k, d |-> 1, s |-> <<>>]

StrCell(x) == [t |-> "str", n |-> 0, d |-> 1, s |-> x]

\* a decimal n / d in lowest form (d a power of ten)
RECURSIVE FloatCell(_, _)
FloatCell(k, den) ==
    IF den > 1 /\ k % 10 = 0 THEN FloatCell(k \div 10, den \div 10)
    ELSE [t |-> "float", n |-> k, d |-> den, s |-> <<>>]

IsNumber(c) == c.t \in {"int", "float"}

\* isna / notna of a cell
IsNa(c) == c.t \in {"null", "none"}

\* str(k) of a natural number
RECURSIVE NatStr(_)
NatStr(k) == IF k < 10 THEN <<Digits[k + 1]>>
             ELSE NatStr(k \div 10) \o <<Digits[(k % 10) + 1]>>

\* the digits of k written on w places
RECURSIVE Padded(_, _)
Padded(k, w) == IF w = 0 THEN <<>>
                ELSE Padded(k \div 10, w - 1) \o <<Digits[(k % 10) + 1]>>

RECURSIVE Log10(_)
Log10(den) == IF den <= 1 THEN 0 ELSE 1 + Log10(den \div 10)

Abs(k) == IF k < 0 THEN -k ELSE k

Sign(k) == IF k < 0 THEN <<"-">> ELSE <<>>

\* str(x) of one element, as Series.astype(str) produces it
Str(c) ==
    CASE c.t = "str" -> c.s
      [] c.t = "null" -> <<"n", "a", "n">>
      [] c.t = "none" -> <<"N", "o", "n", "e">>
      [] c.t = "int" -> Sign(c.n) \o NatStr(Abs(c.n))
      [] c.t = "float" ->
           Sign(c.n) \o NatStr(Abs(c.n) \div c.d) \o <<".">> \o
           (IF c.d = 1 THEN <<"0">> ELSE Padded(Abs(c.n) % c.d, Log10(c.d)))

IsDigits(s) == \A i \in 1..Len(s) : s[i] \in DigitSet

RECURSIVE DigitsValue(_)
DigitsValue(s) ==
    IF s = <<>> THEN 0
    ELSE 10 * DigitsValue(SubSeq(s, 1, Len(s) - 1)) +
         (CHOOSE k \in 0..9 : Digits[k + 1] = s[Len(s)])

RECURSIVE Pow10(_)
Pow10(k) == IF k = 0 THEN 1 ELSE 10 * Pow10(k - 1)

\* position of the first "." of s, 0 when there is none
DotAt(s) == IF \E i \in 1..Len(s) : s[i] = "."
            THEN CHOOSE i \in 1..Len(s) : s[i] = "." /\ \A j \in 1..(i - 1) : s[j] # "."
            ELSE 0

\* an unsigned decimal literal: digits (an integer), or digits.digits,
\* digits. and .digits (a float)
ParseUnsigned(s, neg) ==
    LET dot == DotAt(s)
        ip == IF dot = 0 THEN s ELSE SubSeq(s, 1, dot - 1)
        fp == IF dot = 0 THEN <<>> ELSE SubSeq(s, dot + 1, Len(s))
        mag == DigitsValue(ip) * Pow10(Len(fp)) + DigitsValue(fp)
        val == IF neg THEN -mag ELSE mag
    IN IF IsDigits(ip) /\ IsDigits(fp) /\ Len(ip) + Len(fp) > 0
       THEN IF dot = 0 THEN IntCell(val) ELSE FloatCell(val, Pow10(Len(fp)))
       ELSE Null

\* pd.to_numeric(text, errors="coerce") of one element: a signed decimal
\* literal gives its value, any other text gives NaN
ToNumeric(s) ==
    IF s # <<>> /\ Head(s) \in {"-", "+"}
    THEN ParseUnsigned(Tail(s), Head(s) = "-")
    ELSE ParseUnsigned(s, FALSE)

\* to_number of one element
ToNumberCell(c) == ToNumeric(RemoveCurrency(Str(c)))

\* an integer stored in a float64 array
AsFloat(c) == IF c.t = "int" THEN FloatCell(c.n, 1) ELSE c

\* the array pd.to_numeric returns: int64 when every element is an integer,
\* float64 (integers stored as floats) otherwise
Upcast(series) ==
    IF \A i \in 1..Len(series) : series[i].t = "int" THEN series
    ELSE List([i \in 1..Len(series) |-> AsFloat(series[i])])

\* to_number(series)
to_number(series) == Upcast(List([i \in 1..Len(series) |-> ToNumberCell(series[i])]))

\* -------------------------------------------------------------- DataFrame
\* A frame is [names, src, rows, idx, dtype]: the column labels, the position
\* each column had in the sheet, the rows of cells, the row labels and the
\* dtype of each column.
Range(f) == {f[i] : i \in DOMAIN f}

Column(df, j) == List([i \in 1..Len(df.rows) |-> df.rows[i][j]])

\* the dtype read_excel gives a column
DtypeOf(series) ==
    IF \E i \in 1..Len(series) : series[i].t = "str" THEN "object"
    ELSE IF series # <<>> /\ \A i \in 1..Len(series) : series[i].t = "int" THEN "int64"
    ELSE "float64"

\* pd.read_excel(path): the sheet [names, rows] as a typed frame
read_excel(sheet) ==
    LET nc == Len(sheet.names)
        dt == [j \in 1..nc |->
                 DtypeOf([i \in 1..Len(sheet.rows) |-> sheet.rows[i][j]])]
    IN [names |-> sheet.names,
        src   |-> [j \in 1..nc |-> j],
        rows  |-> [i \in 1..Len(sheet.rows) |->
                     [j \in 1..nc |-> IF dt[j] = "float64"
                                      THEN AsFloat(sheet.rows[i][j])
                                      ELSE sheet.rows[i][j]]],
        idx   |-> [i \in 1..Len(sheet.rows) |-> i],
        dtype |-> dt]

\* the positions 1..n, in order
Positions(n) == [j \in 1..n |-> j]

\* df[[c for c in df.columns if ...]]: the columns at positions ps
SelectCols(df, ps) ==
    [names |-> List([k \in 1..Len(ps) |-> df.names[ps[k]]]),
     src   |-> List([k \in 1..Len(ps) |-> df.src[ps[k]]]),
     rows  |-> List([i \in 1..Len(df.rows) |-> List([k \in 1..Len(ps) |-> df.rows[i][ps[k]]])]),
     idx   |-> df.idx,
     dtype |-> List([k \in 1..Len(ps) |-> df.dtype[ps[k]]])]

\* df.dropna(axis=1, how="all")
DropEmptyCols(df) ==
    SelectCols(df, SelectSeq(Positions(Len(df.names)),
                             LAMBDA j : \E i \in 1..Len(df.rows) : ~IsNa(df.rows[i][j])))

Symbols == {<<"$">>, <<"U", "S", "D">>, <<"U", "S", "$">>, <<>>}

\* is_symbol_col(df[c])
is_symbol_col(df, j) ==
    /\ df.dtype[j] = "object"
    /\ LET vals == {Strip(Str(df.rows[i][j])) :
                      i \in {r \in 1..Len(df.rows) : ~IsNa(df.rows[r][j])}}
       IN Cardinality(vals) = 1 /\ vals \subseteq Symbols

\* DropSymbolCols without the filter
KeepSymbolCols(df) == df

\* df[[c for c in df.columns if not is_symbol_col(df[c])]]
DropSymbolCols(df) ==
    SelectCols(df, SelectSeq(Positions(Len(df.names)), LAMBDA j : ~is_symbol_col(df, j)))

Unnamed == <<"U", "n", "n", "a", "m", "e", "d">>

\* df.iloc[0].astype(str).str.strip(): the first row as one Series, whose
\* dtype is object when a column is, int64 when all are, float64 otherwise
FirstRow(df) ==
    LET nc == Len(df.names)
        asFloat == /\ \A j \in 1..nc : df.dtype[j] # "object"
                   /\ \E j \in 1..nc : df.dtype[j] # "int64"
    IN [j \in 1..nc |->
          Strip(Str(IF asFloat THEN AsFloat(df.rows[1][j]) ELSE df.rows[1][j]))]

\* str.contains(r"[A-Za-z]")
HasLetter(s) == \E i \in 1..Len(s) : IsLetter(s[i])

\* the header-row promotion holds no row to read: df.iloc[0] raises
PromoteRaises(df) ==
    /\ \A j \in 1..Len(df.names) : StartsWith(df.names[j], Unnamed)
    /\ df.rows = <<>>

\* if all columns are unnamed and the first row looks like headers, promote it
PromoteHeader(df) ==
    IF /\ \A j \in 1..Len(df.names) : StartsWith(df.names[j], Unnamed)
       /\ \E j \in 1..Len(df.names) : HasLetter(FirstRow(df)[j])
    THEN [df EXCEPT !.names = FirstRow(df), !.rows = Tail(df.rows), !.idx = Tail(df.idx)]
    ELSE df

\* --------------------------------------------------------- column mapping
OutCols == <<"Year", "Number of Funds", "Amount Closed", "Average Fund Size">>

OutColSet == Range(OutCols)

\* header_map, read from the output column to the header it renames
header_map ==
    [o \in OutColSet |->
       CASE o = "Year" -> <<"Y", "e", "a", "r">>
         [] o = "Number of Funds" ->
              <<"N", "u", "m", "b", "e", "r", " ", "o", "f", " ", "F", "u", "n", "d", "s">>
         [] o = "Amount Closed" ->
              <<"T", "o", "t", "a", "l", " ", "A", "m", "o", "u", "n", "t">>
         [] o = "Average Fund Size" ->
              <<"A", "v", "e", "r", "a", "g", "e", " ", "F", "u", "n", "d", " ",
                "S", "i", "z", "e">>]

\* a chosen column label, or None
NoneCol == [some |-> FALSE, name |-> <<>>]

Some(c) == [some |-> TRUE, name |-> c]

kw_year == <<"y", "e", "a", "r">>
kw_number == <<"n", "u", "m", "b", "e", "r">>
kw_funds == <<"f", "u", "n", "d", "s">>
kw_avg == <<"a", "v", "g">>
kw_amount == <<"a", "m", "o", "u", "n", "t">>
kw_closed == <<"c", "l", "o", "s", "e", "d">>
kw_total == <<"t", "o", "t", "a", "l">>
kw_average == <<"a", "v", "e", "r", "a", "g", "e">>

\* all(k in df.columns for k in header_map.keys())
HeaderPath(df) == \A o \in OutColSet : header_map[o] \in Range(df.names)

\* one pass of the body of `for c in cols`
KeywordStep(sel, c) ==
    LET name == Lower(c)
    IN IF ~sel["Year"].some /\ Contains(name, kw_year)
       THEN [sel EXCEPT !["Year"] = Some(c)]
       ELSE IF /\ ~sel["Number of Funds"].some
               /\ (Contains(name, kw_number) \/ Contains(name, kw_funds))
               /\ ~Contains(name, kw_avg)
       THEN [sel EXCEPT !["Number of Funds"] = Some(c)]
       ELSE IF /\ ~sel["Amount Closed"].some
               /\ \/ Contains(name, kw_amount)
                  \/ Contains(name, kw_closed)
                  \/ Contains(name, kw_total)
       THEN [sel EXCEPT !["Amount Closed"] = Some(c)]
       ELSE IF /\ ~sel["Average Fund Size"].some
               /\ (Contains(name, kw_average) \/ Contains(name, kw_avg))
       THEN [sel EXCEPT !["Average Fund Size"] = Some(c)]
       ELSE sel

\* for c in cols: ...
RECURSIVE KeywordLoop(_, _)
KeywordLoop(sel, cols) ==
    IF cols = <<>> THEN sel ELSE KeywordLoop(KeywordStep(sel, Head(cols)), Tail(cols))

\* fallback to positional mapping if any are missing
PositionalFallback(sel, cols) ==
    [o \in OutColSet |->
       LET k == CHOOSE i \in 1..4 : OutCols[i] = o
       IN IF ~sel[o].some /\ Len(cols) >= k THEN Some(cols[k]) ELSE sel[o]]

\* year_col, num_col, amount_col, avg_col as the mapping code leaves them
\* (on the exact-header path: the keys of header_map)
ChosenCols(df) ==
    IF HeaderPath(df) THEN [o \in OutColSet |-> Some(header_map[o])]
    ELSE PositionalFallback(KeywordLoop([o \in OutColSet |-> NoneCol], df.names),
                            df.names)

\* positions of the columns of df labelled c
Labelled(df, c) == {j \in 1..Len(df.names) : df.names[j] = c}

\* df[None] raises KeyError; df[c] of a label carried by two columns is a
\* DataFrame, on which to_number raises AttributeError
MappingRaises(df) ==
    LET chosen == ChosenCols(df)
    IN \/ ~chosen["Year"].some
       \/ \E o \in OutColSet :
            chosen[o].some /\ Cardinality(Labelled(df, chosen[o].name)) > 1

\* the frame `out` before the coercion loop: columns renamed from df on the
\* exact-header path, to_number of the chosen columns (or None) otherwise
BuildOut(df) ==
    LET chosen == ChosenCols(df)
        pos(o) == CHOOSE j \in Labelled(df, chosen[o].name) : TRUE
    IN [index |-> df.idx,
        cols  |-> [o \in OutColSet |->
                     IF ~chosen[o].some THEN [i \in 1..Len(df.rows) |-> NoneObj]
                     ELSE IF HeaderPath(df) THEN Column(df, pos(o))
                     ELSE to_number(Column(df, pos(o)))],
        src   |-> [o \in OutColSet |->
                     IF chosen[o].some THEN df.src[pos(o)] ELSE 0]]

\* CoerceAll without the coercion loop
CoerceNone(out) == out

\* for c in [...]: out[c] = to_number(out[c])
CoerceAll(out) == [out EXCEPT !.cols = [o \in OutColSet |-> to_number(out.cols[o])]]

\* the rows of `out` at positions ps, in that order
TakeRows(out, ps) ==
    [out EXCEPT !.index = List([k \in 1..Len(ps) |-> out.index[ps[k]]]),
                !.cols = [o \in OutColSet |->
                            List([k \in 1..Len(ps) |-> out.cols[o][ps[k]]])]]

\* out.dropna(subset=["Year"])
DropNaYear(out) ==
    TakeRows(out, SelectSeq(Positions(Len(out.index)), LAMBDA i : ~IsNa(out.cols["Year"][i])))

\* Truncate replaced by rounding to the nearest integer
RoundHalfUp(c) == IntCell((2 * c.n + c.d) \div (2 * c.d))

\* int(x): the fraction is cut off, towards zero
Truncate(c) ==
    IntCell(IF c.n >= 0 THEN c.n \div c.d ELSE -((-c.n) \div c.d))

\* out["Year"] = out["Year"].astype(int)
YearAsInt(out) ==
    [out EXCEPT !.cols["Year"] = [i \in 1..Len(out.index) |-> Truncate(out.cols["Year"][i])]]

\* position p put into the sorted positions ps, after every position whose
\* key is not greater
RECURSIVE Insert(_, _, _)
Insert(ps, p, key) ==
    IF ps = <<>> THEN <<p>>
    ELSE IF key[Head(ps)].n <= key[p].n THEN <<Head(ps)>> \o Insert(Tail(ps), p, key)
    ELSE <<p>> \o ps

RECURSIVE SortedPositions(_, _)
SortedPositions(k, key) ==
    IF k = 0 THEN <<>> ELSE Insert(SortedPositions(k - 1, key), k, key)

\* sort_values left out
KeepOrder(out) == out

\* out.sort_values("Year")
sort_values(out) ==
    TakeRows(out, SortedPositions(Len(out.index), out.cols["Year"]))

\* the frame after the two column drops
Dropped(sheet) == DropSymbolCols(DropEmptyCols(read_excel(sheet)))

\* the frame after the two column drops and the header promotion
Prepared(sheet) == PromoteHeader(Dropped(sheet))

\* the value of a call of load_data: the returned frame, or NoTable when the
\* call raises
NoTable == [loaded |-> FALSE, index |-> <<>>,
            cols |-> [o \in OutColSet |-> <<>>], src |-> [o \in OutColSet |-> 0]]

Loaded(out) == [loaded |-> TRUE, index |-> out.index, cols |-> out.cols, src |-> out.src]

\* load_data(path)
load_data(sheet) ==
    LET D == Dropped(sheet)
    IN IF PromoteRaises(D) THEN NoTable
       ELSE LET P == PromoteHeader(D)
            IN IF MappingRaises(P) THEN NoTable
               ELSE Loaded(sort_values(YearAsInt(DropNaYear(CoerceAll(BuildOut(P))))))

\* ---------------------------------------------------------------- the app
VARIABLES
    fileExists,   \* DATA_PATH.exists()
    sheet,        \* what pd.read_excel finds in the file: [names, rows]
    pc,           \* where the script run stands
    cache,        \* st.cache_data: the memoised return value of load_data
    data,         \* the module-level name `data`
    widget,       \* the selectbox's value in the session state
    metric,       \* the module-level name `metric`
    fig,          \* the figure handed to st.plotly_chart
    errors        \* the st.error messages on the page

vars == <<fileExists, sheet, pc, cache, data, widget, metric, fig, errors>>

\* the options of the selectbox
MetricOptions == <<"Number of Funds", "Average Fund Size">>

NoSeries == [x |-> <<>>, y |-> <<>>, name |-> ""]

NoFig == [drawn |-> FALSE, bar |-> NoSeries, line |-> NoSeries]

\* if not DATA_PATH.exists(): st.error(...); st.stop()
CheckExists ==
    /\ pc = "exists"
    /\ IF fileExists
       THEN pc' = "load" /\ UNCHANGED errors
       ELSE pc' = "stopped" /\ errors' = Append(errors, "Data file not found")
    /\ UNCHANGED <<fileExists, sheet, cache, data, widget, metric, fig>>

\* Load without the st.stop() of the except branch
LoadNoStop ==
    /\ pc = "load"
    /\ data' = IF cache.loaded THEN cache ELSE load_data(sheet)
    /\ IF data'.loaded
       THEN cache' = data' /\ UNCHANGED errors
       ELSE errors' = Append(errors, "Failed to read the Excel file") /\ UNCHANGED cache
    /\ pc' = "selectbox"
    /\ UNCHANGED <<fileExists, sheet, widget, metric, fig>>

\* try: data = load_data(DATA_PATH) except: st.error(...); st.stop()
\* (st.cache_data hands back the stored value when there is one; `data` is
\* bound only when the call returns)
Load ==
    /\ pc = "load"
    /\ data' = IF cache.loaded THEN cache ELSE load_data(sheet)
    /\ IF data'.loaded
       THEN /\ cache' = data'
            /\ pc' = "selectbox"
            /\ UNCHANGED errors
       ELSE /\ errors' = Append(errors, "Failed to read the Excel file")
            /\ pc' = "stopped"
            /\ UNCHANGED cache
    /\ UNCHANGED <<fileExists, sheet, widget, metric, fig>>

\* metric = st.selectbox("Secondary y-axis", [...], index=0)
Selectbox ==
    /\ pc = "selectbox"
    /\ metric' = widget
    /\ pc' = "figure"
    /\ UNCHANGED <<fileExists, sheet, cache, data, widget, fig, errors>>

\* the name of the line trace
line_name(m) == IF m = "Average Fund Size" THEN "Average Fund Size ($ millions)" ELSE m

\* BuildFigure whose line ignores the selection
BuildFigureFirstOption(table, m) ==
    [drawn |-> FALSE,
     bar   |-> [x |-> table.cols["Year"], y |-> table.cols["Amount Closed"],
                name |-> "Amount Closed ($ millions)"],
     line  |-> [x |-> table.cols["Year"], y |-> table.cols["Number of Funds"],
                name |-> line_name(m)]]

\* fig = go.Figure(); fig.add_trace(go.Bar(...)); fig.add_trace(go.Scatter(...))
BuildFigure(table, m) ==
    [drawn |-> FALSE,
     bar   |-> [x |-> table.cols["Year"], y |-> table.cols["Amount Closed"],
                name |-> "Amount Closed ($ millions)"],
     line  |-> [x |-> table.cols["Year"], y |-> table.cols[m], name |-> line_name(m)]]

Figure ==
    /\ pc = "figure"
    /\ fig' = BuildFigure(data, metric)
    /\ pc' = "chart"
    /\ UNCHANGED <<fileExists, sheet, cache, data, widget, metric, errors>>

\* st.plotly_chart(fig, ...)
PlotlyChart ==
    /\ pc = "chart"
    /\ fig' = [fig EXCEPT !.drawn = TRUE]
    /\ pc' = "done"
    /\ UNCHANGED <<fileExists, sheet, cache, data, widget, metric, errors>>

\* the user picks an option of the selectbox: Streamlit stores it and runs
\* the script again from the top
Select(m) ==
    /\ pc = "done"
    /\ m # widget
    /\ widget' = m
    /\ pc' = "exists"
    /\ data' = NoTable
    /\ metric' = ""
    /\ fig' = NoFig
    /\ UNCHANGED <<fileExists, sheet, cache, errors>>

\* ------------------------------------------------------- the input sheets
txt_Vintage == <<"V", "i", "n", "t", "a", "g", "e">>

txt_AvgFunds == <<"A", "v", "g", " ", "F", "u", "n", "d", "s">>

\* the label read_excel gives the j-th column when its header cell is empty
UnnamedLabel(j) == Unnamed \o <<":", " ">> \o NatStr(j - 1)

\* a label that is none of the four exact headers, for the j-th column:
\* without keyword at most places, with the keywords avg and funds at the 5th
OtherLabel(j) ==
    CASE j = 2 -> txt_Vintage
      [] j = 5 -> txt_AvgFunds
      [] OTHER -> UnnamedLabel(j)

\* what a generated column is headed: one of the exact headers, or "other"
LabelKinds == OutColSet \cup {"other"}

\* n headings in which no exact header comes twice
Headings(n) ==
    {f \in [1..n -> LabelKinds] :
       \A i, j \in 1..n : (i # j /\ f[i] = f[j]) => f[i] = "other"}

LabelOf(kind, j) == IF kind = "other" THEN OtherLabel(j) ELSE header_map[kind]

SpecialCells == <<StrCell(<<"$">>), StrCell(<<" ", "U", "S", "$", " ">>), Null>>

\* a numeric cell that tells its column and its row (later rows are smaller)
DataCell(i, j) == IntCell(2010 + 10 * j - i)

\* Column family: n headed columns over two numeric rows; column `special`
\* (0: none) holds one lone currency symbol or nothing.  headed = FALSE puts
\* the headings in the first row, under empty header cells.
ColSheet(kinds, special, headed) ==
    LET n == Len(kinds)
        body(i) == [j \in 1..n |->
                      IF j = special THEN SpecialCells[(j % 3) + 1] ELSE DataCell(i, j)]
    IN IF headed
       THEN [names |-> [j \in 1..n |-> LabelOf(kinds[j], j)],
             rows  |-> <<body(1), body(2)>>]
       ELSE [names |-> [j \in 1..n |-> UnnamedLabel(j)],
             rows  |-> <<[j \in 1..n |->
                            IF j = special \/ kinds[j] = "other" THEN Null
                            ELSE StrCell(header_map[kinds[j]])],
                         body(1), body(2)>>]

ColSheets ==
    {ColSheet(kinds, special, TRUE) :
       <<kinds, special>> \in UNION {Headings(n) \X (0..n) : n \in 0..MaxCols}}
    \cup
    {ColSheet(kinds, 0, FALSE) : kinds \in UNION {Headings(n) : n \in 0..MaxCols}}

txt_2007 == <<"$", "2", ",", "0", "0", "7">>

txt_1234 == <<"$", "1", ",", "2", "3", "4">>

txt_na == <<"n", "/", "a">>

YearCells == {IntCell(2007), IntCell(2006), FloatCell(20065, 10), FloatCell(20062, 10),
              StrCell(txt_2007), StrCell(txt_na), Null}

MetricCells == {StrCell(txt_1234), StrCell(txt_na), Null}

\* Row family: Year, Number of Funds, Total Amount, Average Fund Size in this
\* order, each row <<y, m, 50, 7>>; the labels are the exact headers
\* ("headed"), missing ("unnamed"), or in the first row ("firstrow").
RowSheet(layout, cells) ==
    LET body == [i \in 1..Len(cells) |->
                   <<cells[i][1], cells[i][2], IntCell(50), IntCell(7)>>]
    IN CASE layout = "headed" ->
              [names |-> [j \in 1..4 |-> header_map[OutCols[j]]], rows |-> body]
         [] layout = "unnamed" ->
              [names |-> [j \in 1..4 |-> UnnamedLabel(j)], rows |-> body]
         [] layout = "firstrow" ->
              [names |-> [j \in 1..4 |-> UnnamedLabel(j)],
               rows  |-> <<[j \in 1..4 |-> StrCell(header_map[OutCols[j]])]>> \o body]

RowSheets ==
    {RowSheet(layout, cells) :
       <<layout, cells>> \in
         {"headed", "unnamed", "firstrow"} \X
         UNION {[1..n -> YearCells \X MetricCells] : n \in 0..MaxRows}}

EmptySheet == [names |-> <<>>, rows |-> <<>>]

\* the sheets a whole session is followed on
SessionSheets ==
    {ColSheet(kinds, 0, headed) :
       <<kinds, headed>> \in (UNION {Headings(n) : n \in 0..MaxCols}) \X BOOLEAN}

Startup ==
    /\ pc = "exists"
    /\ cache = NoTable
    /\ data = NoTable
    /\ widget = MetricOptions[1]
    /\ metric = ""
    /\ fig = NoFig
    /\ errors = <<>>

\* a session: the script run at startup and after every selection
Init ==
    /\ \/ fileExists = TRUE /\ sheet \in SessionSheets
       \/ fileExists = FALSE /\ sheet = EmptySheet
    /\ Startup

\* the first script run, up to the return of load_data, on every sheet
InitLoad ==
    /\ \/ fileExists = TRUE /\ sheet \in ColSheets \cup RowSheets
       \/ fileExists = FALSE /\ sheet = EmptySheet
    /\ Startup

Next ==
    \/ CheckExists
    \/ Load
    \/ Selectbox
    \/ Figure
    \/ PlotlyChart
    \/ \E m \in Range(MetricOptions) : Select(m)

NextLoad ==
    \/ CheckExists
    \/ Load

Spec == Init /\ [][Next]_vars

SpecLoad == InitLoad /\ [][NextLoad]_vars

\* ------------------------------------------------------------ properties
Year == data.cols["Year"]

Metrics == OutColSet \ {"Year"}

OutRows == 1..Len(data.index)

\* the cell of the sheet an output cell was read from
InputCell(k, o) == sheet.rows[data.index[k]][data.src[o]]

\* a text that denotes a number once "$" and "," are taken out: digits with
\* at most one "."
NumericText(s) ==
    LET r == SelectSeq(s, LAMBDA c : c \notin {"$", ","})
    IN /\ \E i \in 1..Len(r) : r[i] \in DigitSet
       /\ \A i \in 1..Len(r) : r[i] \in DigitSet \cup {"."}
       /\ Cardinality({i \in 1..Len(r) : r[i] = "."}) <= 1

\* the cell coerces to a number
Coerces(c) == IsNumber(c) \/ (c.t = "str" /\ NumericText(c.s))

\* the labels of the frame carry no recognised keyword
KeywordFree(names) ==
    \A j \in 1..Len(names) :
      \A kw \in {kw_year, kw_number, kw_funds, kw_avg, kw_amount, kw_closed,
                 kw_total, kw_average} : ~Contains(Lower(names[j]), kw)

\* C1: the rows load_data returns are in non-decreasing order of Year.
C1_SortedByYear ==
    data.loaded => \A i, j \in OutRows : i < j => Year[i].n <= Year[j].n

\* C1 witness: a returned table in which sorting put a later input row first.
C1_Witness ==
    /\ data.loaded
    /\ \E i, j \in OutRows :
         i < j /\ data.index[i] > data.index[j] /\ Year[i].n < Year[j].n

\* the output columns are read from the columns of the exact headers
ReadByHeader ==
    \A o \in OutColSet : data.src[o] # 0 /\ sheet.names[data.src[o]] = header_map[o]

\* C2 as stated (on the sheets with the four exact headers): no two output
\* rows carry the same Year.
C2_UniqueYears ==
    (data.loaded /\ ReadByHeader) =>
      \A i, j \in OutRows : i # j => Year[i].n # Year[j].n

\* the integer part of the number a year cell (none is negative) coerces to
IntegerPart(c) ==
    IF IsNumber(c) THEN c.n \div c.d
    ELSE LET r == SelectSeq(c.s, LAMBDA ch : ch \in DigitSet \cup {"."})
             dot == DotAt(r)
         IN DigitsValue(IF dot = 0 THEN r ELSE SubSeq(r, 1, dot - 1))

\* C2 amended: every output Year is an integer, the integer part of the
\* number the Year cell of its input row coerces to, and each output row
\* comes from an input row of its own; nothing removes rows of equal Year.
C2_YearsAreIntegerParts ==
    data.loaded =>
      /\ \A k \in OutRows : Year[k].t = "int" /\ Year[k].n = IntegerPart(InputCell(k, "Year"))
      /\ \A i, j \in OutRows : i # j => data.index[i] # data.index[j]

\* C2 witness: two output rows of one Year, read from two different
\* non-integer year cells.
C2_Witness ==
    /\ data.loaded
    /\ \E i, j \in OutRows :
         /\ i # j /\ Year[i] = Year[j]
         /\ InputCell(i, "Year").t = "float" /\ InputCell(j, "Year").t = "float"
         /\ InputCell(i, "Year") # InputCell(j, "Year")

\* C3 as stated (on the sheets with the four exact headers): no output row
\* holds a null in a metric column.
C3_NoNullMetric ==
    (data.loaded /\ ReadByHeader) =>
      \A k \in OutRows : \A o \in Metrics : IsNumber(data.cols[o][k])

\* C3 amended: every output row has a number in Year; a metric cell is a
\* number or NaN, and NaN exactly when its column has no source or the input
\* cell does not coerce (rows are filtered on Year alone).
C3_NullOnlyInMetrics ==
    data.loaded =>
      \A k \in OutRows :
        /\ IsNumber(Year[k])
        /\ \A o \in Metrics :
             /\ IsNumber(data.cols[o][k]) \/ data.cols[o][k].t = "null"
             /\ IsNumber(data.cols[o][k]) <=>
                  (data.src[o] # 0 /\ Coerces(InputCell(k, o)))

\* C3 witness: an output row whose Number of Funds is NaN because the
\* input cell is empty, beside a row where it is a number.
C3_Witness ==
    /\ data.loaded
    /\ ReadByHeader
    /\ \E k1, k2 \in OutRows :
         /\ InputCell(k1, "Number of Funds").t = "null"
         /\ data.cols["Number of Funds"][k1].t = "null"
         /\ IsNumber(data.cols["Number of Funds"][k2])

\* C3 witness: a returned table with a metric column that has no source.
C3_WitnessNoSource ==
    /\ data.loaded
    /\ data.index # <<>>
    /\ \E o \in Metrics : data.src[o] = 0 /\ data.cols[o][1].t = "null"

\* C4 as stated: on a sheet whose labels contain the four exact headers,
\* every output column is read from the column of the matching label; where
\* the labels in use carry no keyword, the outputs are read from the 1st to
\* 4th remaining column, in this order.
C4_RawHeadersMapByName ==
    data.loaded =>
      /\ (\A o \in OutColSet : header_map[o] \in Range(sheet.names)) =>
           \A o \in OutColSet :
             data.src[o] # 0 /\ sheet.names[data.src[o]] = header_map[o]
      /\ LET P == Prepared(sheet)
         IN KeywordFree(P.names) =>
              \A k \in 1..4 :
                data.src[OutCols[k]] = IF k <= Len(P.names) THEN P.src[k] ELSE 0

\* C4, what load_data does: the exact headers count only among the columns
\* that remain after the empty and lone-symbol columns are dropped (and the
\* first row promoted); when all four remain, every output column is read from
\* the column of the matching label.
C4_MapsByNameOrPosition ==
    data.loaded =>
      LET P == Prepared(sheet)
      IN (\A o \in OutColSet : header_map[o] \in Range(P.names)) =>
            \A o \in OutColSet :
              \E j \in 1..Len(P.names) :
                P.names[j] = header_map[o] /\ P.src[j] = data.src[o]

\* C4: the four exact headers out of order beside an extra column, mapped
\* by name.
C4_Witness ==
    /\ data.loaded
    /\ Len(sheet.names) > 4
    /\ \A o \in OutColSet : header_map[o] \in Range(sheet.names)
    /\ sheet.names[1] # header_map["Year"]
    /\ \A o \in OutColSet : data.src[o] # 0 /\ sheet.names[data.src[o]] = header_map[o]

\* column j of the sheet holds one lone currency symbol (or only empty
\* strings) in every cell that is not empty
LoneSymbolColumn(j) ==
    \E x \in Symbols :
      /\ \E i \in 1..Len(sheet.rows) : sheet.rows[i][j].t # "null"
      /\ \A i \in 1..Len(sheet.rows) :
           \/ sheet.rows[i][j].t = "null"
           \/ sheet.rows[i][j].t = "str" /\ Strip(sheet.rows[i][j].s) = x

EmptyColumn(j) == \A i \in 1..Len(sheet.rows) : sheet.rows[i][j].t = "null"

\* the columns of the sheet that are neither empty nor a lone symbol
Remaining ==
    SelectSeq([j \in 1..Len(sheet.names) |-> j],
              LAMBDA j : ~EmptyColumn(j) /\ ~LoneSymbolColumn(j))

\* the first row holds a number in every remaining column, so that it is
\* not taken for a header row
FirstRowNumeric ==
    /\ sheet.rows # <<>>
    /\ \A k \in 1..Len(Remaining) : IsNumber(sheet.rows[1][Remaining[k]])

\* C5: a lone-symbol column is the source of no output column, and where
\* the remaining labels carry no keyword (and the first row is data) the
\* k-th output column is read from the k-th remaining column.
C5_SymbolColumnsNeverChosen ==
    data.loaded =>
      /\ \A o \in OutColSet : data.src[o] # 0 => ~LoneSymbolColumn(data.src[o])
      /\ (FirstRowNumeric /\
          KeywordFree([k \in 1..Len(Remaining) |-> sheet.names[Remaining[k]]])) =>
           \A k \in 1..4 :
             data.src[OutCols[k]] = IF k <= Len(Remaining) THEN Remaining[k] ELSE 0

\* C5 witness: a lone-symbol column ahead of a column chosen by position.
C5_Witness ==
    /\ data.loaded
    /\ FirstRowNumeric
    /\ KeywordFree([k \in 1..Len(Remaining) |-> sheet.names[Remaining[k]]])
    /\ \E j \in 1..Len(sheet.names) :
         LoneSymbolColumn(j) /\ \E o \in OutColSet : data.src[o] > j

\* a cell of digits, with or without "$" in front and "," between them
CurrencyText(c) ==
    /\ c.t = "str"
    /\ LET body == IF c.s # <<>> /\ Head(c.s) = "$" THEN Tail(c.s) ELSE c.s
       IN /\ body # <<>>
          /\ body[1] \in DigitSet
          /\ \A i \in 1..Len(body) : body[i] \in DigitSet \cup {","}

\* C6: an output cell read from a currency-formatted cell is the integer
\* its digits denote.
C6_CurrencyTextCoerces ==
    data.loaded =>
      \A k \in OutRows : \A o \in OutColSet :
        (data.src[o] # 0 /\ CurrencyText(InputCell(k, o))) =>
          /\ IsNumber(data.cols[o][k])
          /\ data.cols[o][k].d = 1
          /\ data.cols[o][k].n =
               DigitsValue(SelectSeq(InputCell(k, o).s, LAMBDA ch : ch \in DigitSet))

\* C6 witness: "$1,234" read as 1234 on the exact-header path and "$2,007"
\* as the Year 2007.
C6_Witness ==
    /\ data.loaded
    /\ HeaderPath(Prepared(sheet))
    /\ \E k \in OutRows :
         /\ InputCell(k, "Year") = StrCell(txt_2007) /\ Year[k].n = 2007
         /\ InputCell(k, "Number of Funds") = StrCell(txt_1234)
         /\ data.cols["Number of Funds"][k].n = 1234

\* C6 witness on the fallback path.
C6_WitnessFallback ==
    /\ data.loaded
    /\ ~HeaderPath(Prepared(sheet))
    /\ \E k \in OutRows :
         /\ InputCell(k, "Number of Funds") = StrCell(txt_1234)
         /\ data.cols["Number of Funds"][k].n = 1234

\* C7: an error message ends the run with no selectbox and no chart, and
\* the selectbox and the chart come only after load_data returned a table.
C7_ErrorStops ==
    /\ errors # <<>> => (pc = "stopped" /\ metric = "" /\ fig = NoFig)
    /\ pc = "selectbox" => (fileExists /\ load_data(sheet).loaded)
    /\ (pc \in {"selectbox", "figure", "chart", "done"} \/ fig # NoFig) =>
         (data.loaded /\ errors = <<>>)

\* C7 witness: the file exists, load_data raised, the run stopped with the
\* message.
C7_Witness ==
    /\ fileExists
    /\ pc = "stopped"
    /\ errors = <<"Failed to read the Excel file">>

\* C7 witness: the file is missing.
C7_WitnessMissing ==
    /\ ~fileExists
    /\ pc = "stopped"
    /\ errors = <<"Data file not found">>

\* C8 as stated: a row of the sheet is in the output exactly when its Year
\* cell coerces to a number.
C8_RowKeptIffYearCoerces ==
    data.loaded =>
      \A r \in 1..Len(sheet.rows) :
        (r \in Range(data.index)) <=> Coerces(sheet.rows[r][data.src["Year"]])

\* C9: the drawn chart's line is the column the selectbox names, its bars
\* are Amount Closed over Year, and the table is the one load_data returned.
C9_ChartFollowsSelection ==
    /\ fig.drawn =>
         /\ fig.line.y = data.cols[widget] /\ fig.line.x = data.cols["Year"]
         /\ fig.bar.y = data.cols["Amount Closed"] /\ fig.bar.x = data.cols["Year"]
    /\ data.loaded => data = cache
    /\ fig.drawn => data = load_data(sheet)
    /\ (pc = "exists" /\ cache = NoTable) => widget = "Number of Funds"

\* C9 witness: the chart drawn again after Average Fund Size was selected,
\* the two selectable columns being different.
C9_Witness ==
    /\ pc = "done" /\ fig.drawn
    /\ widget = "Average Fund Size"
    /\ data.index # <<>>
    /\ data.cols["Average Fund Size"] # data.cols["Number of Funds"]
    /\ fig.line.y = data.cols["Average Fund Size"]

\* C10 as stated: on the fallback path with four or more remaining columns
\* no column of the sheet is the source of two output columns.
C10_FallbackDistinct ==
    (data.loaded /\ ~HeaderPath(Prepared(sheet)) /\ Len(Prepared(sheet).names) >= 4) =>
      \A o1, o2 \in OutColSet : o1 # o2 => data.src[o1] # data.src[o2]

====
